---- MODULE Spec2Model ----
(***************************************************************************)
(* State machine of the Configuration component                           *)
(* (src/components/Configuration.tsx): the debounced repository input,    *)
(* the category lookup it drives, the category select, the mapping radio  *)
(* group with its term input, and the direct theme / reactions controls.  *)
(***************************************************************************)
EXTENDS Integers, Sequences, FiniteSets

VARIABLES
    repository,     \* useState('')         text of the repository input
    dRepository,    \* useDebounce(...)     settled repository identifier
    timer,          \* the debouncer has a timeout pending
    repositoryId,   \* useState('')
    categoryId,     \* useState('')
    error,          \* useState(false)
    categories,     \* useState<ICategory[]>([])
    mapping,        \* useState('pathname')
    term,           \* useState('')
    directConfig,   \* props.directConfig   [theme, reactionsEnabled]
    inflight,       \* getCategories promises not yet settled
    issued,         \* number of getCategories calls made so far
    lastEvent,      \* the event handled last, with what it replaced
    answer,         \* what the lookup for the settled identifier fulfilled with
    appliedFor      \* the identifier whose lookup wrote repositoryId and categories

validator == <<repositoryId, categoryId, error, categories>>
selector == <<mapping, term>>
history == <<answer, appliedFor>>
vars == <<repository, dRepository, timer, repositoryId, categoryId, error,
          categories, mapping, term, directConfig, inflight, issued, lastEvent,
          answer, appliedFor>>

----------------------------------------------------------------------------
(* Bounds of the model. *)

\* getCategories calls in one behaviour
MaxLookups == 3

\* getCategories calls in one behaviour of the whole form (SpecSession)
MaxSessionLookups == 1

(* Input domains. *)

\* texts the user can leave in the repository input
Repositories == {"", "octo/demo", "octo/other"}

\* repositoryId values a lookup response can carry
RepositoryIds == {"", "R_1", "R_2"}

Cat1 == [id |-> "C_1", emoji |-> "speech", name |-> "General"]
Cat2 == [id |-> "C_2", emoji |-> "bulb", name |-> "Ideas"]

\* category lists a lookup response can carry (ids unique within a list)
CategoryLists == {<<>>, <<Cat1>>, <<Cat2>>, <<Cat1, Cat2>>}

\* values typed into the term input
Terms == {"", "42"}

Themes == {"light", "dark"}

mappingOptions == {"pathname", "url", "title", "og:title", "specific", "number"}

\* ['specific', 'number'].includes(mapping)
NeedsTerm(m) == m \in {"specific", "number"}

CategoryIds(cats) == {cats[i].id : i \in 1..Len(cats)}

----------------------------------------------------------------------------
(* The validation status the repository fieldset renders. *)

ValidatorStateOf(err, rid, cats, d) ==
    IF err \/ (rid # "" /\ Len(cats) = 0) THEN "Error"
    ELSE IF rid # "" /\ Len(cats) # 0 THEN "Success"
    ELSE IF ~err /\ rid = "" /\ d # "" THEN "Pending"
    ELSE "Idle"

ValidatorState == ValidatorStateOf(error, repositoryId, categories, dRepository)

----------------------------------------------------------------------------
(* The <script> snippet the component renders, as its attributes in order *)
(* with their values (the closing async marker has no value).             *)

OrElseEmpty(x, placeholder) == x

\* x || placeholder, for strings
OrElse(x, placeholder) == IF x = "" THEN placeholder ELSE x

TermLineWhenTermSet(m, t) ==
    IF t # ""
    THEN << <<"data-term", OrElse(t, "[ENTER TERM HERE]")>> >>
    ELSE <<>>

\* the data-term line, rendered for the mappings that take a term
TermLine(m, t) ==
    IF m \in {"specific", "number"}
    THEN << <<"data-term", OrElse(t, "[ENTER TERM HERE]")>> >>
    ELSE <<>>

SnippetOf(repo, rid, cid, m, t, dc) ==
    << <<"src", "https://giscus.app/client.js">>,
       <<"data-repo", OrElse(repo, "[ENTER REPO HERE]")>>,
       <<"data-repo-id", OrElse(rid, "[ENTER REPO ID HERE]")>>,
       <<"data-category-id", OrElse(cid, "[ENTER CATEGORY ID HERE]")>>,
       <<"data-mapping", m>> >>
    \o TermLine(m, t)
    \o << <<"data-reactions-enabled", IF dc.reactionsEnabled THEN "1" ELSE "0">>,
          <<"data-theme", dc.theme>>,
          <<"crossorigin", "anonymous">> >>

Snippet == SnippetOf(repository, repositoryId, categoryId, mapping, term, directConfig)

\* the values the snippet gives to attribute name
Attr(name) == {Snippet[i][2] : i \in {j \in 1..Len(Snippet) : Snippet[j][1] = name}}

----------------------------------------------------------------------------
\* the lookup whose result is the one for the settled identifier
IsCurrent(r) == dRepository # "" /\ r.epoch = issued /\ r.id = dRepository

\* a getCategories call: its argument, its place in the order of the calls,
\* and the status that was rendered when it was made
Request(d, n, s) == [id |-> d, epoch |-> n, from |-> s]

----------------------------------------------------------------------------
(* The state after mount: the useState defaults, the effect already run for *)
(* the empty settled identifier, and the props the page starts with.        *)
Init ==
    /\ repository = ""
    /\ dRepository = ""
    /\ timer = FALSE
    /\ repositoryId = ""
    /\ categoryId = ""
    /\ error = FALSE
    /\ categories = <<>>
    /\ mapping = "pathname"
    /\ term = ""
    /\ directConfig = [theme |-> "light", reactionsEnabled |-> TRUE]
    /\ inflight = {}
    /\ issued = 0
    /\ lastEvent = [kind |-> "mount"]
    /\ answer = [ok |-> FALSE]
    /\ appliedFor = ""

(* The repository input feeding the effect directly, with no debouncer in *)
(* between: every change of the text is at once the settled identifier.   *)
OnRepositoryChangeUndebounced(v) ==
    /\ v # repository
    /\ repository' = v
    /\ dRepository' = v
    /\ timer' = FALSE
    /\ error' = FALSE
    /\ repositoryId' = ""
    /\ categoryId' = ""
    /\ categories' = <<>>
    /\ IF v # "" /\ issued < MaxLookups
       THEN /\ issued' = issued + 1
            /\ inflight' = inflight \cup {Request(v, issued + 1, ValidatorState)}
       ELSE UNCHANGED <<inflight, issued>>
    /\ lastEvent' = [kind |-> "keystroke", restarted |-> timer]
    /\ answer' = [ok |-> FALSE]
    /\ appliedFor' = ""
    /\ UNCHANGED <<selector, directConfig>>

(* onChange of the repository input; the debouncer restarts its wait. *)
OnRepositoryChange(v) ==
    /\ v # repository
    /\ repository' = v
    /\ timer' = TRUE
    /\ lastEvent' = [kind |-> "keystroke", restarted |-> timer]
    /\ UNCHANGED history
    /\ UNCHANGED <<dRepository, validator, selector, directConfig, inflight, issued>>

(* Variants of the effect with one statement wrong, used to show that the *)
(* properties below depend on that statement.                             *)
RepositoryEffectKeepsCategory(d) ==
    /\ error' = FALSE
    /\ repositoryId' = ""
    /\ categories' = <<>>
    /\ UNCHANGED categoryId
    /\ IF d # ""
       THEN /\ issued' = issued + 1
            /\ inflight' = inflight \cup {Request(d, issued + 1, ValidatorState)}
       ELSE UNCHANGED <<inflight, issued>>

RepositoryEffectAlwaysLooksUp(d) ==
    /\ error' = FALSE
    /\ repositoryId' = ""
    /\ categoryId' = ""
    /\ categories' = <<>>
    /\ issued' = issued + 1
    /\ inflight' = inflight \cup {Request(d, issued + 1, ValidatorState)}

RepositoryEffectKeepsError(d) ==
    /\ UNCHANGED error
    /\ repositoryId' = ""
    /\ categoryId' = ""
    /\ categories' = <<>>
    /\ IF d # ""
       THEN /\ issued' = issued + 1
            /\ inflight' = inflight \cup {Request(d, issued + 1, ValidatorState)}
       ELSE UNCHANGED <<inflight, issued>>

(* The useEffect on [dRepository], run with the new settled identifier d. *)
RepositoryEffect(d) ==
    /\ error' = FALSE
    /\ repositoryId' = ""
    /\ categoryId' = ""
    /\ categories' = <<>>
    /\ IF d # ""
       THEN /\ issued' = issued + 1
            /\ inflight' = inflight \cup {Request(d, issued + 1, ValidatorState)}
       ELSE UNCHANGED <<inflight, issued>>

(* The debouncer's timeout fires: the input text becomes the settled value, *)
(* and a changed settled value re-runs the effect.                          *)
DebounceFire ==
    /\ timer
    /\ (repository # dRepository /\ repository # "") => issued < MaxLookups
    /\ timer' = FALSE
    /\ dRepository' = repository
    /\ IF repository # dRepository
       THEN /\ RepositoryEffect(repository)
            /\ lastEvent' = [kind |-> "settle", prev |-> ValidatorState]
            /\ answer' = [ok |-> FALSE]
            /\ appliedFor' = ""
       ELSE /\ UNCHANGED <<validator, inflight, issued, history>>
            /\ lastEvent' = [kind |-> "timeout"]
    /\ UNCHANGED <<repository, selector, directConfig>>

(* .then(({ repositoryId, categories }) => ...) of a getCategories call. *)
ThenHandler(rid, cats) ==
    /\ repositoryId' = rid
    /\ categories' = cats
    /\ UNCHANGED <<error, categoryId>>

(* .catch(() => ...) of a getCategories call. *)
CatchHandler ==
    /\ error' = TRUE
    /\ UNCHANGED <<repositoryId, categories, categoryId>>

LookupSucceeds(r, rid, cats) ==
    /\ r \in inflight
    /\ inflight' = inflight \ {r}
    /\ ThenHandler(rid, cats)
    /\ lastEvent' = [kind |-> "then", stale |-> ~IsCurrent(r), from |-> r.from]
    /\ answer' = IF IsCurrent(r)
                 THEN [ok |-> TRUE, repositoryId |-> rid, categories |-> cats]
                 ELSE answer
    /\ appliedFor' = r.id
    /\ UNCHANGED <<repository, dRepository, timer, selector, directConfig, issued>>

LookupFails(r) ==
    /\ r \in inflight
    /\ inflight' = inflight \ {r}
    /\ CatchHandler
    /\ lastEvent' = [kind |-> "catch", stale |-> ~IsCurrent(r), from |-> r.from]
    /\ UNCHANGED history
    /\ UNCHANGED <<repository, dRepository, timer, selector, directConfig, issued>>

(* A category select that also forgets the resolved repository. *)
OnCategoryChangeResetsRepositoryId(id) ==
    /\ Len(categories) # 0
    /\ id \in CategoryIds(categories)
    /\ categoryId' = id
    /\ repositoryId' = ""
    /\ lastEvent' = [kind |-> "category"]
    /\ UNCHANGED history
    /\ UNCHANGED <<repository, dRepository, timer, error, categories,
                   selector, directConfig, inflight, issued>>

(* onChange of the category select (disabled while there are no categories). *)
OnCategoryChange(id) ==
    /\ Len(categories) # 0
    /\ id \in CategoryIds(categories)
    /\ categoryId' = id
    /\ lastEvent' = [kind |-> "category"]
    /\ UNCHANGED history
    /\ UNCHANGED <<repository, dRepository, timer, repositoryId, error, categories,
                   selector, directConfig, inflight, issued>>

OnMappingChangeKeepsTerm(v) ==
    /\ mapping' = v
    /\ lastEvent' = [kind |-> "mapping", same |-> (v = mapping), term |-> term]
    /\ UNCHANGED history
    /\ UNCHANGED <<repository, dRepository, timer, validator, term, directConfig,
                   inflight, issued>>

(* onChange of a mapping radio button. *)
OnMappingChange(v) ==
    /\ term' = ""
    /\ mapping' = v
    /\ lastEvent' = [kind |-> "mapping", same |-> (v = mapping), term |-> term]
    /\ UNCHANGED history
    /\ UNCHANGED <<repository, dRepository, timer, validator, directConfig,
                   inflight, issued>>

OnTermChangeAlwaysRendered(v) ==
    /\ v # term
    /\ term' = v
    /\ lastEvent' = [kind |-> "term"]
    /\ UNCHANGED history
    /\ UNCHANGED <<repository, dRepository, timer, validator, mapping, directConfig,
                   inflight, issued>>

(* onChange of the term input, rendered under the checked radio only when *)
(* the mapping is specific or number.                                     *)
OnTermChange(v) ==
    /\ NeedsTerm(mapping)
    /\ v # term
    /\ term' = v
    /\ lastEvent' = [kind |-> "term"]
    /\ UNCHANGED history
    /\ UNCHANGED <<repository, dRepository, timer, validator, mapping, directConfig,
                   inflight, issued>>

(* onDirectConfigChange('theme', value) *)
OnThemeChange(v) ==
    /\ v # directConfig.theme
    /\ directConfig' = [directConfig EXCEPT !.theme = v]
    /\ lastEvent' = [kind |-> "theme"]
    /\ UNCHANGED history
    /\ UNCHANGED <<repository, dRepository, timer, validator, selector, inflight, issued>>

(* onDirectConfigChange('reactionsEnabled', checked) *)
OnReactionsChange ==
    /\ directConfig' = [directConfig EXCEPT !.reactionsEnabled = ~@]
    /\ lastEvent' = [kind |-> "reactions"]
    /\ UNCHANGED history
    /\ UNCHANGED <<repository, dRepository, timer, validator, selector, inflight, issued>>

(* Events of the repository fieldset and the category select. *)
NextValidator ==
    \/ \E v \in Repositories : OnRepositoryChange(v)
    \/ DebounceFire
    \/ \E r \in inflight, rid \in RepositoryIds, cats \in CategoryLists :
           LookupSucceeds(r, rid, cats)
    \/ \E r \in inflight : LookupFails(r)
    \/ \E id \in {"C_1", "C_2"} : OnCategoryChange(id)

(* Events of the mapping radio group, the term input and the direct controls. *)
NextSelector ==
    \/ \E v \in mappingOptions : OnMappingChange(v)
    \/ \E v \in Terms : OnTermChange(v)
    \/ \E v \in Themes : OnThemeChange(v)
    \/ OnReactionsChange

Next == NextValidator \/ NextSelector

Spec == Init /\ [][Next]_vars

(* The two groups of controls share no state, so each is also explored on *)
(* its own, with the other group's controls left untouched.               *)
SpecValidator == Init /\ [][NextValidator]_vars

SpecSelector == Init /\ [][NextSelector]_vars

(* The whole form, both groups of controls interleaved, in sessions that *)
(* make at most MaxSessionLookups lookups.                               *)
NextSession ==
    \/ \E v \in Repositories : OnRepositoryChange(v)
    \/ DebounceFire /\ issued' <= MaxSessionLookups
    \/ \E r \in inflight, rid \in RepositoryIds, cats \in CategoryLists :
           LookupSucceeds(r, rid, cats)
    \/ \E r \in inflight : LookupFails(r)
    \/ \E id \in {"C_1", "C_2"} : OnCategoryChange(id)
    \/ \E v \in mappingOptions : OnMappingChange(v)
    \/ \E v \in Terms : OnTermChange(v)
    \/ \E v \in Themes : OnThemeChange(v)
    \/ OnReactionsChange

SpecSession == Init /\ [][NextSession]_vars

----------------------------------------------------------------------------
(* Properties of the repository validator (checked under SpecValidator).  *)

\* the response of request r is delivered, as a success or as a failure
Resolves(r) ==
    \/ LookupFails(r)
    \/ \E rid \in RepositoryIds, cats \in CategoryLists : LookupSucceeds(r, rid, cats)

(* C1: stale-result suppression. When the response of a lookup arrives    *)
(* after a later lookup has been issued, applying it changes none of      *)
(* repositoryId, categories, categoryId and the error flag.               *)
C1_StaleResultDiscarded ==
    [][\A r \in inflight :
          (r.epoch < issued /\ Resolves(r)) => UNCHANGED validator]_vars

(* C2: selected-category invariant. categoryId is the empty string or the *)
(* id of a category in the stored categories list.                        *)
C2_SelectedCategoryValid ==
    categoryId = "" \/ categoryId \in CategoryIds(categories)

(* C3: category reset on re-lookup. The step that issues a lookup leaves  *)
(* repositoryId, categoryId and categories empty and the status Pending,  *)
(* with the new lookup still unanswered.                                  *)
C3_ResetOnPending ==
    [][issued' # issued =>
          /\ repositoryId' = ""
          /\ categoryId' = ""
          /\ categories' = <<>>
          /\ ValidatorState' = "Pending"
          /\ \E r \in inflight' : r.epoch = issued' /\ r.id = dRepository']_vars

\* a lookup has just been issued from Success
C3_Witness ==
    /\ lastEvent.kind = "settle"
    /\ lastEvent.prev = "Success"
    /\ dRepository # ""
    /\ issued >= 2

(* C4: zero-category normalization. After the lookup for the settled      *)
(* identifier succeeds with an empty category list the status is Error,   *)
(* whatever repositoryId the response carries.                            *)
C4_ZeroCategoriesIsError ==
    (lastEvent.kind = "then" /\ ~lastEvent.stale /\ categories = <<>>)
        => ValidatorState = "Error"

(* C5: failure handling. A failure of the lookup for the settled          *)
(* identifier sets the error flag with repositoryId and categories still  *)
(* empty, shows Error, and leaves mapping, term and the direct            *)
(* configuration unchanged.                                               *)
C5_FailureIsError ==
    [][\A r \in inflight :
          (IsCurrent(r) /\ LookupFails(r)) =>
              /\ error'
              /\ repositoryId' = ""
              /\ categories' = <<>>
              /\ ValidatorState' = "Error"
              /\ UNCHANGED <<mapping, term, directConfig>>]_vars

(* C6: lookup issuance. A step issues a lookup exactly when it changes    *)
(* the settled identifier to a non-empty value; it then issues exactly    *)
(* one, for that value, and no other step adds a lookup.                  *)
C6_LookupIssuance ==
    [][/\ (issued' # issued) <=> (dRepository' # dRepository /\ dRepository' # "")
       /\ (issued' # issued) =>
              /\ issued' = issued + 1
              /\ \E r \in inflight' :
                     /\ r.id = dRepository'
                     /\ r.epoch = issued'
                     /\ inflight' = inflight \cup {r}
       /\ (issued' = issued) => (inflight' \subseteq inflight)]_vars

\* a second lookup was issued, by a new settled value, after the first failed
C6_Witness ==
    /\ lastEvent.kind = "settle"
    /\ lastEvent.prev = "Error"
    /\ dRepository # ""
    /\ issued = 2
    /\ Cardinality(inflight) = 1

(* C7: return to Idle. When the settled identifier becomes empty the      *)
(* error flag is cleared, repositoryId, categoryId and categories are     *)
(* empty, the status is Idle and no lookup is issued.                     *)
C7_ReturnToIdle ==
    [][(dRepository' # dRepository /\ dRepository' = "") =>
          /\ ~error'
          /\ repositoryId' = ""
          /\ categoryId' = ""
          /\ categories' = <<>>
          /\ ValidatorState' = "Idle"
          /\ UNCHANGED <<issued, inflight>>]_vars

\* the settled identifier has just become empty while Error was shown
C7_Witness ==
    /\ lastEvent.kind = "settle"
    /\ lastEvent.prev = "Error"
    /\ dRepository = ""

(* C8: Error is recoverable. A new non-empty settled identifier arriving  *)
(* in Error gives Pending with the error flag cleared, and when the       *)
(* lookup issued there succeeds with a repositoryId and one or more       *)
(* categories the status is Success.                                      *)
C8_ErrorRecoverable ==
    /\ (lastEvent.kind = "settle" /\ lastEvent.prev = "Error" /\ dRepository # "")
           => (ValidatorState = "Pending" /\ ~error)
    /\ (/\ lastEvent.kind = "then"
        /\ ~lastEvent.stale
        /\ lastEvent.from = "Error"
        /\ repositoryId # ""
        /\ Len(categories) >= 1)
           => ValidatorState = "Success"

----------------------------------------------------------------------------
(* Properties of the mapping selector (checked under SpecSelector).       *)

(* C9: term reset on mapping change. After every mapping-selection event  *)
(* the term is the empty string, whatever the previous mapping and term   *)
(* were and whether or not the choice is the one already selected.        *)
C9_TermResetOnMapping ==
    lastEvent.kind = "mapping" => term = ""

\* number was selected again while the term was "42"
C9_Witness ==
    /\ lastEvent.kind = "mapping"
    /\ lastEvent.same
    /\ lastEvent.term = "42"
    /\ mapping = "number"

(* C10: term invariant. Whenever the mapping is not specific or number    *)
(* the stored term is the empty string.                                   *)
C10_TermEmptyOutsideTermMappings ==
    ~NeedsTerm(mapping) => term = ""

\* a mapping that takes no term was selected while a term was stored
C10_Witness ==
    /\ lastEvent.kind = "mapping"
    /\ lastEvent.term # ""
    /\ ~NeedsTerm(mapping)

----------------------------------------------------------------------------
(* Properties of the debouncer (checked under SpecValidator).             *)

----------------------------------------------------------------------------
(* Properties of the rendered snippet.                                    *)

(* C12: snippet placeholder completeness. The rendered values of          *)
(* data-repo, data-repo-id, data-category-id and, when the line is        *)
(* present, data-term are never the empty string: an empty field is       *)
(* rendered as its placeholder token and a non-empty one as itself.       *)
(* Checked under SpecSession.                                             *)
C12_PlaceholderCompleteness ==
    /\ Attr("data-repo") =
           {IF repository = "" THEN "[ENTER REPO HERE]" ELSE repository}
    /\ Attr("data-repo-id") =
           {IF repositoryId = "" THEN "[ENTER REPO ID HERE]" ELSE repositoryId}
    /\ Attr("data-category-id") =
           {IF categoryId = "" THEN "[ENTER CATEGORY ID HERE]" ELSE categoryId}
    /\ Attr("data-term") \subseteq
           {IF term = "" THEN "[ENTER TERM HERE]" ELSE term}
    /\ \A i \in 1..Len(Snippet) :
           Snippet[i][1] \in {"data-repo", "data-repo-id",
                              "data-category-id", "data-term"}
               => Snippet[i][2] # ""

\* a resolved repository with no category chosen yet and a term typed: the
\* snippet mixes values rendered as themselves with a placeholder
C12_Witness ==
    /\ repository # ""
    /\ repositoryId # ""
    /\ categoryId = ""
    /\ mapping = "specific"
    /\ term = "42"
    /\ Attr("data-category-id") = {"[ENTER CATEGORY ID HERE]"}
    /\ Attr("data-term") = {"42"}

(* C13: conditional term line. The snippet has a data-term attribute      *)
(* exactly when the mapping is specific or number, and then exactly one;  *)
(* for pathname, url, title and og:title the line is absent. Checked      *)
(* under SpecSelector.                                                    *)
C13_ConditionalTermLine ==
    /\ Attr("data-mapping") = {mapping}
    /\ mapping \in {"specific", "number"} <=> Attr("data-term") # {}
    /\ Cardinality({i \in 1..Len(Snippet) : Snippet[i][1] = "data-term"}) =
           IF mapping \in {"specific", "number"} THEN 1 ELSE 0

\* specific was selected while a term was stored: the term was cleared and
\* the line is rendered with the placeholder
C13_Witness ==
    /\ lastEvent.kind = "mapping"
    /\ lastEvent.term = "42"
    /\ mapping = "specific"
    /\ term = ""
    /\ Attr("data-term") = {"[ENTER TERM HERE]"}

(* C14: end-to-end resolution. Once an identifier has settled, its lookup *)
(* has succeeded with a repositoryId and a non-empty category list, a     *)
(* category of that list is selected, the mapping needs no term and no    *)
(* input is pending, the snippet shows that identifier, that              *)
(* repositoryId, that category and that mapping, and no data-term line.   *)
(* Checked under SpecValidator.                                           *)
C14_EndToEndResolution ==
    (/\ dRepository # ""
     /\ repository = dRepository
     /\ ~timer
     /\ answer.ok
     /\ answer.repositoryId # ""
     /\ answer.categories # <<>>
     /\ categoryId \in CategoryIds(answer.categories)
     /\ ~NeedsTerm(mapping))
        => /\ Attr("data-repo") = {dRepository}
           /\ Attr("data-repo-id") = {answer.repositoryId}
           /\ Attr("data-category-id") = {categoryId}
           /\ Attr("data-mapping") = {mapping}
           /\ Attr("data-term") = {}

----------------------------------------------------------------------------
(* Frame properties of the whole form (checked under SpecSession).        *)

(* C15: validator-state ownership. A mapping selection, a term edit, a    *)
(* theme change and a reactions toggle leave repositoryId, categories,    *)
(* categoryId and the error flag unchanged; a category selection changes  *)
(* categoryId only; repositoryId, categories and the error flag change    *)
(* only in a step that changes the settled identifier or delivers a       *)
(* lookup response.                                                       *)
C15_ValidatorOwnership ==
    [][/\ lastEvent'.kind \in {"mapping", "term", "theme", "reactions"}
              => UNCHANGED validator
       /\ lastEvent'.kind = "category"
              => UNCHANGED <<repositoryId, categories, error>>
       /\ <<repositoryId, categories, error>>' # <<repositoryId, categories, error>>
              => \/ dRepository' # dRepository
                 \/ \E r \in inflight : inflight' = inflight \ {r}]_vars

\* a mapping was selected after a repository was resolved and a category
\* chosen: both are still there
C15_Witness ==
    /\ lastEvent.kind = "mapping"
    /\ ~lastEvent.same
    /\ repositoryId # ""
    /\ categories # <<>>
    /\ categoryId = "C_2"

----------------------------------------------------------------------------
(* Properties the design implies (checked under SpecValidator).           *)

(* C16: snippet consistency. Whenever the snippet's data-repo-id is not   *)
(* the placeholder, it is the repositoryId that the lookup returned for   *)
(* exactly the repository string shown in data-repo, also while the       *)
(* repository text is being edited and has not settled yet.               *)
C16_SnippetConsistency ==
    Attr("data-repo-id") # {"[ENTER REPO ID HERE]"}
        => /\ Attr("data-repo-id") = {repositoryId}
           /\ Attr("data-repo") = {appliedFor}

(* C17: the status flags are consistent. The error flag is never set      *)
(* while repositoryId or categories is non-empty, and the Success         *)
(* indication is shown only when the lookup for the current settled       *)
(* identifier has resolved successfully, with the values it returned.     *)
C17_StatusFlagsConsistent ==
    /\ error => (repositoryId = "" /\ categories = <<>>)
    /\ ValidatorState = "Success"
           => /\ dRepository # ""
              /\ answer.ok
              /\ answer.repositoryId = repositoryId
              /\ answer.categories = categories

(* C18: Pending always resolves. Once the text has settled on a non-empty *)
(* identifier, no wait is pending and every issued lookup has responded,  *)
(* nothing but new input can change the validator any more, so the status *)
(* shown then must already be Success or Error, whatever the payloads     *)
(* were (an empty repositoryId with an empty category list included).     *)
C18_PendingResolves ==
    (/\ dRepository # ""
     /\ repository = dRepository
     /\ ~timer
     /\ inflight = {})
        => ValidatorState \in {"Success", "Error"}
====
